---------------------------- MODULE Spec2Model ----------------------------
(***************************************************************************)
(* A model of the data-table component (gatherRows, rowId, renderCell,     *)
(* renderCellPlaintext, renderPlaintext, DataTable) and of the page render *)
(* orchestrator (getNavHeadings, getAboutContent, renderPage).             *)
(*                                                                         *)
(* The program is a set of synchronous functions.  A behaviour of the      *)
(* model is one call: the initial state holds the arguments of the call    *)
(* (args), drawn from a bounded set, and the single step applies the       *)
(* function and stores what it returns or throws (result).                 *)
(*                                                                         *)
(* JavaScript values are tagged records, strings are TLA+ strings, and a   *)
(* JavaScript object is the sequence of its <<key, value>> entries in      *)
(* iteration order.                                                        *)
(***************************************************************************)
EXTENDS Integers, Sequences, FiniteSets, TLC

VARIABLES
    call,     \* the function that has been applied, "none" before the call
    args,     \* the arguments of the call
    result    \* what the call returned or threw, Pending before the call

vars == <<call, args, result>>

-----------------------------------------------------------------------------
(* JavaScript values *)

Undef == [t |-> "undefined"]
Null == [t |-> "null"]
Str(s) == [t |-> "string", s |-> s]
Num(n) == [t |-> "number", n |-> n]
NaN == [t |-> "number", nan |-> TRUE]
Bool(b) == [t |-> "boolean", b |-> b]
Arr(xs) == [t |-> "array", xs |-> xs]
Obj(es) == [t |-> "object", es |-> es]

IsStr(v) == v.t = "string"
IsArr(v) == v.t = "array"
IsObj(v) == v.t = "object"
IsNaN(v) == v.t = "number" /\ "nan" \in DOMAIN v
IsNullish(v) == v.t \in {"undefined", "null"}

\* ToBoolean
Truthy(v) ==
    CASE v.t = "undefined" -> FALSE
      [] v.t = "null" -> FALSE
      [] v.t = "boolean" -> v.b
      [] v.t = "number" -> ~IsNaN(v) /\ v.n # 0
      [] v.t = "string" -> v.s # ""
      [] OTHER -> TRUE

\* the outcome of a call
Pending == [t |-> "pending"]
Return(v) == [t |-> "return", v |-> v]
Throw(e) == [t |-> "throw", e |-> e]
Returned(r) == r.t = "return"
Threw(r) == r.t = "throw"

-----------------------------------------------------------------------------
(* Sequences *)

Last(s) == s[Len(s)]

Reverse(s) == [i \in 1..Len(s) |-> s[Len(s) + 1 - i]]

FirstHalf(s) == SubSeq(s, 1, Len(s) \div 2)
SecondHalf(s) == SubSeq(s, (Len(s) \div 2) + 1, Len(s))

\* the elements of the sequences of ss, in order
RECURSIVE Concat(_)
Concat(ss) ==
    IF ss = <<>> THEN <<>>
    ELSE IF Len(ss) = 1 THEN ss[1]
    ELSE Concat(FirstHalf(ss)) \o Concat(SecondHalf(ss))

\* the elements of s at the positions where keep is TRUE, in order
RECURSIVE Filter(_, _)
Filter(keep, s) ==
    IF s = <<>> THEN <<>>
    ELSE IF Len(s) = 1 THEN (IF keep[1] THEN s ELSE <<>>)
    ELSE Filter(FirstHalf(keep), FirstHalf(s)) \o Filter(SecondHalf(keep), SecondHalf(s))

-----------------------------------------------------------------------------
(* Strings *)

Digits == "0123456789"
UpperLetters == "ABCDEFGHIJKLMNOPQRSTUVWXYZ"
LowerLetters == "abcdefghijklmnopqrstuvwxyz"

CharAt(s, i) == SubSeq(s, i, i)
CharsOf(s) == {CharAt(s, i) : i \in 1..Len(s)}
IndexIn(s, c) == CHOOSE i \in 1..Len(s) : CharAt(s, i) = c

\* the UTF-16 code unit of a character of the model's alphabet
CharCode ==
    [c \in CharsOf(Digits) \cup CharsOf(UpperLetters) \cup CharsOf(LowerLetters)
           \cup {" ", "-", "/", ":"} |->
        CASE c \in CharsOf(Digits) -> 47 + IndexIn(Digits, c)
          [] c \in CharsOf(UpperLetters) -> 64 + IndexIn(UpperLetters, c)
          [] c \in CharsOf(LowerLetters) -> 96 + IndexIn(LowerLetters, c)
          [] c = " " -> 32
          [] c = "-" -> 45
          [] c = "/" -> 47
          [] c = ":" -> 58]

UpperChar ==
    [c \in DOMAIN CharCode |->
        IF c \in CharsOf(LowerLetters)
        THEN CharAt(UpperLetters, IndexIn(LowerLetters, c))
        ELSE c]

RECURSIVE toUpperCase(_)
toUpperCase(s) ==
    IF s = "" THEN "" ELSE UpperChar[CharAt(s, 1)] \o toUpperCase(SubSeq(s, 2, Len(s)))

startsWith(s, prefix) ==
    Len(s) >= Len(prefix) /\ SubSeq(s, 1, Len(prefix)) = prefix

\* s.split(sep) for a one-character separator: never empty, "" gives <<"">>
RECURSIVE SplitFrom(_, _, _, _)
SplitFrom(s, sep, i, cur) ==
    IF i > Len(s) THEN <<cur>>
    ELSE IF CharAt(s, i) = sep THEN <<cur>> \o SplitFrom(s, sep, i + 1, "")
    ELSE SplitFrom(s, sep, i + 1, cur \o CharAt(s, i))

split(s, sep) == SplitFrom(s, sep, 1, "")

\* strs.join(sep)
RECURSIVE join(_, _)
join(strs, sep) ==
    IF strs = <<>> THEN ""
    ELSE IF Len(strs) = 1 THEN strs[1]
    ELSE join(SubSeq(strs, 1, Len(strs) \div 2), sep) \o sep
         \o join(SubSeq(strs, (Len(strs) \div 2) + 1, Len(strs)), sep)

\* string < string: lexicographic on code units
RECURSIVE StrLt(_, _)
StrLt(a, b) ==
    IF b = "" THEN FALSE
    ELSE IF a = "" THEN TRUE
    ELSE IF CharAt(a, 1) = CharAt(b, 1)
         THEN StrLt(SubSeq(a, 2, Len(a)), SubSeq(b, 2, Len(b)))
         ELSE CharCode[CharAt(a, 1)] < CharCode[CharAt(b, 1)]

\* the value of a string of decimal digits
RECURSIVE DigitsValue(_, _)
DigitsValue(s, acc) ==
    IF s = "" THEN acc
    ELSE DigitsValue(SubSeq(s, 2, Len(s)), 10 * acc + IndexIn(Digits, CharAt(s, 1)) - 1)

\* ToNumber of a string over the model's alphabet of letters and digits
StringToNumber(s) ==
    IF s = "" THEN Num(0)
    ELSE IF CharsOf(s) \subseteq CharsOf(Digits) THEN Num(DigitsValue(s, 0))
    ELSE NaN

ToNumber(v) ==
    CASE v.t = "number" -> v
      [] v.t = "boolean" -> Num(IF v.b THEN 1 ELSE 0)
      [] v.t = "string" -> StringToNumber(v.s)
      [] v.t = "null" -> Num(0)
      [] OTHER -> NaN

\* number < number and number == number: false as soon as one is NaN
NumberLess(na, nb) == ~IsNaN(na) /\ ~IsNaN(nb) /\ na.n < nb.n
NumberEquals(na, nb) == ~IsNaN(na) /\ ~IsNaN(nb) /\ na.n = nb.n

\* a < b for primitives (the abstract relational comparison)
LessThan(a, b) ==
    IF IsStr(a) /\ IsStr(b) THEN StrLt(a.s, b.s)
    ELSE NumberLess(ToNumber(a), ToNumber(b))

\* a == b for a string b (loose equality): a number or a boolean is compared
\* with the number the string converts to
LooseEqualsString(a, b) ==
    CASE a.t = "string" -> a.s = b
      [] a.t \in {"number", "boolean"} -> NumberEquals(ToNumber(a), StringToNumber(b))
      [] OTHER -> FALSE

\* the decimal digits of a natural number
RECURSIVE NatToString(_)
NatToString(n) ==
    IF n < 10 THEN CharAt(Digits, n + 1)
    ELSE NatToString(n \div 10) \o CharAt(Digits, (n % 10) + 1)

\* JsString, as a template literal and string concatenation apply it
RECURSIVE JsString(_)
JsString(v) ==
    CASE v.t = "string" -> v.s
      [] v.t = "undefined" -> "undefined"
      [] v.t = "null" -> "null"
      [] v.t = "boolean" -> IF v.b THEN "true" ELSE "false"
      [] v.t = "number" ->
            IF IsNaN(v) THEN "NaN"
            ELSE IF v.n < 0 THEN "-" \o NatToString(-v.n)
            ELSE NatToString(v.n)
      [] v.t = "array" ->
            join([i \in 1..Len(v.xs) |->
                     IF IsNullish(v.xs[i]) THEN "" ELSE JsString(v.xs[i])], ",")
      [] OTHER -> "[object Object]"

-----------------------------------------------------------------------------
(* Property access and Ramda's path helpers *)

\* a canonical array index written as a string: "0", "1", ..., "17"
IsIndexKey(k) ==
    /\ k # ""
    /\ CharsOf(k) \subseteq CharsOf(Digits)
    /\ (Len(k) > 1 => CharAt(k, 1) # "0")

HasKey(es, k) == \E i \in 1..Len(es) : es[i][1] = k
ValueOf(es, k) == es[CHOOSE i \in 1..Len(es) : es[i][1] = k][2]

\* v[k] for a value that is neither null nor undefined
Prop(v, k) ==
    CASE IsObj(v) -> IF HasKey(v.es, k) THEN ValueOf(v.es, k) ELSE Undef
      [] IsArr(v) ->
            IF k = "length" THEN Num(Len(v.xs))
            ELSE IF IsIndexKey(k) /\ DigitsValue(k, 0) < Len(v.xs)
                 THEN v.xs[DigitsValue(k, 0) + 1]
                 ELSE Undef
      [] IsStr(v) ->
            IF k = "length" THEN Num(Len(v.s))
            ELSE IF IsIndexKey(k) /\ DigitsValue(k, 0) < Len(v.s)
                 THEN Str(CharAt(v.s, DigitsValue(k, 0) + 1))
                 ELSE Undef
      [] OTHER -> Undef

\* R.path(segs, v): undefined as soon as the walk meets null or undefined
RECURSIVE path(_, _)
path(segs, v) ==
    IF segs = <<>> THEN v
    ELSE IF IsNullish(v) THEN Undef
    ELSE path(Tail(segs), Prop(v, Head(segs)))

\* R.defaultTo(d, v): d for null, undefined and NaN
defaultTo(d, v) == IF IsNullish(v) \/ IsNaN(v) THEN d ELSE v

\* R.pathOr(d, segs, v)
pathOr(d, segs, v) == defaultTo(d, path(segs, v))

\* Object.entries(v).map(([key, value]) => ({key, value}))
RECURSIVE EntryRows(_)
EntryRows(es) ==
    IF es = <<>> THEN <<>>
    ELSE <<Obj(<<<<"key", Str(Head(es)[1])>>, <<"value", Head(es)[2]>>>>)>>
         \o EntryRows(Tail(es))

RECURSIVE CharEntries(_, _)
CharEntries(s, i) ==
    IF i > Len(s) THEN <<>>
    ELSE <<<<CHOOSE k \in {"0", "1", "2", "3", "4", "5", "6", "7", "8", "9"} :
                 DigitsValue(k, 0) = i - 1,
             Str(CharAt(s, i))>>>> \o CharEntries(s, i + 1)

\* Object.entries(v) of a value that is not an array
Entries(v) ==
    CASE IsObj(v) -> v.es
      [] IsStr(v) -> CharEntries(v.s, 1)
      [] OTHER -> <<>>

\* R.flatten: arrays nested at any depth are spliced into the result
RECURSIVE flatten(_)
flatten(xs) ==
    IF xs = <<>> THEN <<>>
    ELSE IF Len(xs) = 1 THEN (IF IsArr(xs[1]) THEN flatten(xs[1].xs) ELSE xs)
    ELSE flatten(FirstHalf(xs)) \o flatten(SecondHalf(xs))

-----------------------------------------------------------------------------
(* R.sortBy(fn, list): list.slice().sort((a, b) => aa < bb ? -1 : aa > bb ? 1 : 0) *)
(* on the keys aa = fn(a), bb = fn(b).  Array.prototype.sort is the engine *)
(* the site is built with (Node, V8): one run is counted from the left,    *)
(* reversed when strictly descending, and the rest is inserted by binary   *)
(* search.  That is V8's whole algorithm below 64 elements.  From 64       *)
(* elements on V8 also merges runs; when the comparator totally orders     *)
(* the keys every stable sort returns the same sequence as this one.       *)
(* k is the sequence of keys and w the working sequence of indices into k. *)

SortCompare(k, a, b) ==
    IF LessThan(k[a], k[b]) THEN -1
    ELSE IF LessThan(k[b], k[a]) THEN 1
    ELSE 0

\* the run ends at an element that does not continue its direction
RunEnds(isDescending, order) ==
    (isDescending /\ order >= 0) \/ (~isDescending /\ order < 0)

RECURSIVE RunLength(_, _, _, _)
RunLength(k, w, isDescending, idx) ==
    IF idx > Len(w) THEN Len(w)
    ELSE IF RunEnds(isDescending, SortCompare(k, w[idx], w[idx - 1])) THEN idx - 1
    ELSE RunLength(k, w, isDescending, idx + 1)

RECURSIVE InsertionPoint(_, _, _, _, _)
InsertionPoint(k, w, pivot, left, right) ==
    IF left >= right THEN left
    ELSE LET mid == left + ((right - left) \div 2)
         IN  IF SortCompare(k, pivot, w[mid]) < 0
             THEN InsertionPoint(k, w, pivot, left, mid)
             ELSE InsertionPoint(k, w, pivot, mid + 1, right)

\* w with the element at start moved to left, the elements between shifted
MoveTo(w, left, start) ==
    SubSeq(w, 1, left - 1) \o <<w[start]>> \o SubSeq(w, left, start - 1)
        \o SubSeq(w, start + 1, Len(w))

RECURSIVE BinaryInsertionSort(_, _, _)
BinaryInsertionSort(k, w, start) ==
    IF start > Len(w) THEN w
    ELSE BinaryInsertionSort(k,
             MoveTo(w, InsertionPoint(k, w, w[start], 1, start), start),
             start + 1)

\* the first run, put in ascending order, and the rest inserted into it
SortFromRun(k, w, isDescending, run) ==
    BinaryInsertionSort(k,
        IF isDescending
        THEN Reverse(SubSeq(w, 1, run)) \o SubSeq(w, run + 1, Len(w))
        ELSE w,
        run + 1)

CountAndMakeRun(k, w, isDescending) ==
    SortFromRun(k, w, isDescending, RunLength(k, w, isDescending, 3))

ArraySort(k) ==
    IF Len(k) < 2 THEN [i \in 1..Len(k) |-> i]
    ELSE CountAndMakeRun(k, [i \in 1..Len(k) |-> i], SortCompare(k, 2, 1) < 0)

-----------------------------------------------------------------------------
(* gatherRows *)

\* props.dataPath as a list of split paths
dataPathsOf(props) ==
    IF ~Truthy(props.dataPath) THEN <<>>
    ELSE IF IsArr(props.dataPath)
         THEN [i \in 1..Len(props.dataPath.xs) |-> split(props.dataPath.xs[i].s, "/")]
         ELSE <<split(props.dataPath.s, "/")>>

tableIdOf(props) ==
    IF ~IsNullish(props.id) THEN props.id.s
    ELSE LET dataPaths == dataPathsOf(props)
         IN  join([i \in 1..Len(dataPaths) |-> Last(dataPaths[i])], "-")

\* the first two stages of the pipe: resolve each path, turn a mapping into rows
rowsOf(found) == IF IsArr(found) THEN found ELSE Arr(EntryRows(Entries(found)))

sourceRows(ctx, dataPath) == rowsOf(pathOr(Arr(<<>>), dataPath, ctx.data))

TypeError == "TypeError"

\* row => { sortKey = R.path(...); return sortKey ? sortKey.toUpperCase() : false }
\* a truthy value that is no string has no toUpperCase: the call throws
upperCasedOrFalse(sortKey) ==
    IF ~Truthy(sortKey) THEN Bool(FALSE)
    ELSE IF IsStr(sortKey) THEN Str(toUpperCase(sortKey.s))
    ELSE Throw(TypeError)

sortKeyOf(props, row) == upperCasedOrFalse(path(split(props.rowSortKey.s, "/"), row))

\* the rows in the order w of their indices
Permuted(rows, w) == [i \in 1..Len(rows) |-> rows[w[i]]]

\* the sort of the rows by their keys k
sortByKeys(rows, k) ==
    IF Len(rows) >= 2 /\ \E i \in 1..Len(rows) : k[i].t = "throw"
    THEN Throw(TypeError)
    ELSE Return(Permuted(rows, ArraySort(k)))

\* R.sortBy on the rows: the comparator runs on every row once there are two
sortBy(props, rows) ==
    sortByKeys(rows, [i \in 1..Len(rows) |-> sortKeyOf(props, rows[i])])

\* predicateValue with === where the code has ==
predicateValue_StrictEquals(props, row) ==
    LET value == path(split(props.rowFilterKey.s, "/"), row)
    IN  IF ~Truthy(props.rowFilterValue) THEN Truthy(value)
        ELSE IF IsArr(value)
             THEN \E i \in 1..Len(value.xs) : value.xs[i] = props.rowFilterValue
             ELSE value = props.rowFilterValue

\* the R.filter predicate before rowFilterNot is applied
predicateValue(props, row) ==
    LET value == path(split(props.rowFilterKey.s, "/"), row)
    IN  IF ~Truthy(props.rowFilterValue) THEN Truthy(value)
        ELSE IF IsArr(value)
             THEN \E i \in 1..Len(value.xs) : value.xs[i] = props.rowFilterValue
             ELSE LooseEqualsString(value, props.rowFilterValue.s)

\* props.rowFilterNot ? !predicateValue : predicateValue
rowFilter(props, row) == predicateValue(props, row) # Truthy(props.rowFilterNot)

\* the stages of the R.pipe, each on what the stage before it returns
resolveStage(ctx, dataPaths) ==
    [i \in 1..Len(dataPaths) |-> sourceRows(ctx, dataPaths[i])]

sortStage(props, rows) ==
    IF Truthy(props.rowSortKey) THEN sortBy(props, rows) ELSE Return(rows)

reverseStage(props, rows) ==
    IF Truthy(props.rowSortReverse) THEN Reverse(rows) ELSE rows

filterStage(props, rows) ==
    IF Truthy(props.rowFilterKey)
    THEN Filter([i \in 1..Len(rows) |-> rowFilter(props, rows[i])], rows)
    ELSE rows

\* the stages after the sort, which is the one stage of the model that throws
afterSort(props, sorted) ==
    IF Threw(sorted) THEN sorted
    ELSE Return([rows |-> filterStage(props, reverseStage(props, sorted.v)),
                 id |-> tableIdOf(props)])

gatherRows(ctx, props) ==
    afterSort(props, sortStage(props, flatten(resolveStage(ctx, dataPathsOf(props)))))

-----------------------------------------------------------------------------
(* The render context that renderPage builds, and its page-link resolver *)

\* R.mergeDeepRight(l, r): the keys of l, then the new keys of r; where both
\* hold an object the two are merged, anywhere else the value of r wins
RECURSIVE mergeDeepRight(_, _)
mergeDeepRight(l, r) ==
    IF ~IsObj(r) THEN l
    ELSE IF ~IsObj(l) THEN r
    ELSE LET merged(e) ==
                 IF ~HasKey(r.es, e[1]) THEN e
                 ELSE LET rv == ValueOf(r.es, e[1])
                      IN  IF IsObj(e[2]) /\ IsObj(rv)
                          THEN <<e[1], mergeDeepRight(e[2], rv)>>
                          ELSE <<e[1], rv>>
         IN  Obj([i \in 1..Len(l.es) |-> merged(l.es[i])]
                 \o Filter([i \in 1..Len(r.es) |-> ~HasKey(l.es, r.es[i][1])], r.es))

endsWith(s, suffix) ==
    Len(s) >= Len(suffix) /\ SubSeq(s, Len(s) - Len(suffix) + 1, Len(s)) = suffix

\* resolvePageGlobal: the page of the index whose id is idTail or ends with
\* "/" and idTail, in the language asked for, or undefined
firstPageLink(hits) ==
    IF hits = <<>> THEN Undef
    ELSE [title |-> hits[1].title, url |-> hits[1].url, pageId |-> hits[1].pageId]

resolvePageGlobal(pageIndex, lang, pageId, idTail) ==
    firstPageLink(Filter([i \in 1..Len(pageIndex) |->
                             /\ pageIndex[i].lang = lang
                             /\ \/ pageIndex[i].pageId = idTail
                                \/ endsWith(pageIndex[i].pageId, "/" \o idTail)],
                         pageIndex))

ResolveError == "Error: Failed to resolve page"

\* the body of the closure once resolvePageGlobal has answered with page
pageOrPlaceholder(input, idTail, page) ==
    IF page = Undef /\ ~Truthy(input.debug)
    THEN Throw(ResolveError)
    ELSE Return(IF page # Undef THEN page
                ELSE [title |-> "[Unresolved]", url |-> "#", pageId |-> idTail])

\* resolvePage without the debug flag: an unresolved page always throws
resolvePage_IgnoresDebug(ctx, idTail) ==
    pageOrPlaceholder([ctx.input EXCEPT !.debug = Undef], idTail,
        resolvePageGlobal(ctx.input.pageIndex, ctx.input.lang, ctx.input.pageId, idTail))

\* ctx.resolvePage(idTail), the closure of renderPage over its input
resolvePage(ctx, idTail) ==
    pageOrPlaceholder(ctx.input, idTail,
        resolvePageGlobal(ctx.input.pageIndex, ctx.input.lang, ctx.input.pageId, idTail))

\* the ctx of renderPage; input is what the resolvePage closure captures
renderContext(input) ==
    [noThumbs |-> input.noThumbs,
     lang |-> input.lang,
     pageId |-> input.pageId,
     title |-> path(<<"title">>, input.front),
     input |-> input,
     data |-> mergeDeepRight(input.globalData, input.localData)]

-----------------------------------------------------------------------------
(* renderCell and renderCellPlaintext *)

UnsupportedFormat(format) == "Error: unsupported column format: " \o format

\* s.trim() on the model's alphabet, where the only white space is " "
RECURSIVE trim(_)
trim(s) ==
    IF s = "" THEN ""
    ELSE IF CharAt(s, 1) = " " THEN trim(SubSeq(s, 2, Len(s)))
    ELSE IF CharAt(s, Len(s)) = " " THEN trim(SubSeq(s, 1, Len(s) - 1))
    ELSE s

\* the markdown pipeline (parse, transform, renderMdPlaintext) on a cell:
\* the text of the cell, undefined when nothing is rendered
renderMdPlaintext(ctx, content) == IF IsStr(content) THEN content ELSE Undef

\* what is rendered for a nested element
Element(el, props) == [el |-> el, props |-> props]

\* try { target = ctx.resolvePage(content); ... } catch (e) { return content }
titleOrContent(target, content) ==
    IF Threw(target) THEN Return(content) ELSE Return(Str(target.v.title))

linkOrContent(target, content, children) ==
    IF Threw(target) THEN Return(content)
    ELSE Return(Element("a", [href |-> target.v.url,
                              children |-> IF children = "title"
                                           THEN Str(target.v.title) ELSE content]))

renderCellPlaintext(ctx, formatArg, content) ==
    LET format == IF IsNullish(formatArg) THEN "text" ELSE formatArg.s
    IN  IF ~Truthy(content) THEN Return(Str(""))
        ELSE IF format = "text" THEN
            LET plain == renderMdPlaintext(ctx, content)
            IN  Return(IF IsNullish(plain) THEN Str("") ELSE Str(trim(plain.s)))
        ELSE IF format = "code" THEN Return(content)
        ELSE IF format = "anchor" \/ format = "pageLink" THEN
            titleOrContent(resolvePage(ctx, JsString(content)), content)
        ELSE IF format = "pageLinkRaw" THEN Return(content)
        ELSE IF startsWith(format, "codeblock") THEN Return(Str(JsString(content) \o "\n"))
        ELSE Throw(UnsupportedFormat(format))

\* renderCell with a last branch that renders the content instead of throwing
renderCell_RendersAnyFormat(ctx, formatArg, content) ==
    LET format == IF IsNullish(formatArg) THEN "text" ELSE formatArg.s
    IN  IF ~Truthy(content) THEN Return(Str(""))
        ELSE IF format = "text" THEN Return(Element("Md", [src |-> content]))
        ELSE IF format = "code" THEN Return(Element("code", [children |-> content]))
        ELSE IF format = "anchor" \/ format = "pageLink" THEN
            linkOrContent(resolvePage(ctx, JsString(content)), content, "title")
        ELSE IF format = "pageLinkRaw" THEN
            linkOrContent(resolvePage(ctx, JsString(content)), content, "content")
        ELSE IF startsWith(format, "codeblock") THEN
            LET parts == split(format, "-")
            IN  Return(Element("CodeBlock",
                    [language |-> IF Len(parts) >= 2 THEN Str(parts[2]) ELSE Undef,
                     code |-> content]))
        ELSE Return(content)

renderCell(ctx, formatArg, content) ==
    LET format == IF IsNullish(formatArg) THEN "text" ELSE formatArg.s
    IN  IF ~Truthy(content) THEN Return(Str(""))
        ELSE IF format = "text" THEN Return(Element("Md", [src |-> content]))
        ELSE IF format = "code" THEN Return(Element("code", [children |-> content]))
        ELSE IF format = "anchor" \/ format = "pageLink" THEN
            linkOrContent(resolvePage(ctx, JsString(content)), content, "title")
        ELSE IF format = "pageLinkRaw" THEN
            linkOrContent(resolvePage(ctx, JsString(content)), content, "content")
        ELSE IF startsWith(format, "codeblock") THEN
            LET parts == split(format, "-")
            IN  Return(Element("CodeBlock",
                    [language |-> IF Len(parts) >= 2 THEN Str(parts[2]) ELSE Undef,
                     code |-> content]))
        ELSE Throw(UnsupportedFormat(format))

-----------------------------------------------------------------------------
(* rowId, DataTable and the table's renderPlaintext *)

AUTO_INDEX_THRESHOLD == 100

LowerChar ==
    [c \in DOMAIN CharCode |->
        IF c \in CharsOf(UpperLetters)
        THEN CharAt(LowerLetters, IndexIn(UpperLetters, c))
        ELSE c]

\* slugify: lower case, every character that is no letter or digit a hyphen
RECURSIVE slugify(_)
slugify(s) ==
    IF s = "" THEN ""
    ELSE LET c == CharAt(s, 1)
         IN  (IF c \in CharsOf(Digits) \cup CharsOf(UpperLetters) \cup CharsOf(LowerLetters)
              THEN LowerChar[c]
              ELSE "-") \o slugify(SubSeq(s, 2, Len(s)))

\* props.columns[props.linkCol]: a column for an index in range, else undefined
HasColumn(props, linkCol) ==
    linkCol.t = "number" /\ ~IsNaN(linkCol) /\ linkCol.n \in 0..(Len(props.columns) - 1)

\* slugify(`${tableId}-${R.path(linkSlugKey.split("/"), row)}`)
slugOf(tableId, linkSlugKey, row) ==
    Return(slugify(tableId \o "-" \o JsString(path(split(linkSlugKey, "/"), row))))

\* index is the zero-based position of the row
rowId(tableId, props, row, index) ==
    IF props.linkCol = Undef THEN Return(tableId \o "-" \o NatToString(index + 1))
    ELSE IF props.linkCol = Bool(TRUE) THEN
        IF ~Truthy(props.linkSlugKey)
        THEN Return(tableId \o "-" \o NatToString(index + 1))
        ELSE slugOf(tableId, props.linkSlugKey.s, row)
    ELSE IF ~IsNullish(props.linkSlugKey) THEN slugOf(tableId, props.linkSlugKey.s, row)
    ELSE IF HasColumn(props, props.linkCol)
         THEN slugOf(tableId, props.columns[props.linkCol.n + 1].key, row)
         ELSE Throw(TypeError)

\* the first of the outcomes that is a throw, or Return of all the values
FirstThrow(outcomes) ==
    IF \E i \in 1..Len(outcomes) : Threw(outcomes[i])
    THEN outcomes[CHOOSE i \in 1..Len(outcomes) :
                      /\ Threw(outcomes[i])
                      /\ \A j \in 1..(i - 1) : ~Threw(outcomes[j])]
    ELSE Return([i \in 1..Len(outcomes) |-> outcomes[i].v])

\* first.toUpperCase(), which throws on what is not a string
upperCased(first) ==
    IF IsStr(first) THEN Return(toUpperCase(first.s)) ELSE Throw(TypeError)

\* sortKey[0], which throws on null and undefined
firstOf(sortKey) ==
    IF IsNullish(sortKey) THEN Throw(TypeError) ELSE upperCased(Prop(sortKey, "0"))

\* sortKey[0].toUpperCase()
indexKeyOf(props, row) == firstOf(path(split(props.rowSortKey.s, "/"), row))

\* rowsIndex.push({indexKey, id}) with the outcome of rowId
pushIndexEntry(rowsIndex, indexKey, id) ==
    IF Threw(id) THEN id
    ELSE Return(Append(rowsIndex, [indexKey |-> indexKey, id |-> id.v]))

\* the turn once indexKey is computed
indexRowWith(tableId, props, rows, i, rowsIndex, indexKey) ==
    IF Threw(indexKey) THEN indexKey
    ELSE IF rowsIndex = <<>> \/ Last(rowsIndex).indexKey # indexKey.v
    THEN pushIndexEntry(rowsIndex, indexKey.v, rowId(tableId, props, rows[i], i - 1))
    ELSE Return(rowsIndex)

\* one turn of the rows.forEach that fills rowsIndex, for row i
indexRow(tableId, props, rows, i, rowsIndex) ==
    indexRowWith(tableId, props, rows, i, rowsIndex, indexKeyOf(props, rows[i]))

\* the turns of the forEach for the rows lo..hi, in order, until one throws
RECURSIVE buildIndex(_, _, _, _, _, _)
RECURSIVE buildIndexFrom(_, _, _, _, _, _)
buildIndex(tableId, props, rows, lo, hi, rowsIndex) ==
    IF lo > hi THEN Return(rowsIndex)
    ELSE IF lo = hi THEN indexRow(tableId, props, rows, lo, rowsIndex)
    ELSE buildIndexFrom(tableId, props, rows, ((lo + hi) \div 2) + 1, hi,
             buildIndex(tableId, props, rows, lo, (lo + hi) \div 2, rowsIndex))

\* the turns from lo on, after the turns before lo ended with done
buildIndexFrom(tableId, props, rows, lo, hi, done) ==
    IF Threw(done) THEN done
    ELSE buildIndex(tableId, props, rows, lo, hi, done.v)

\* the index is built for a sorted, linked table of at least the threshold
rowsIndexOf(tableId, props, rows) ==
    IF /\ Truthy(props.rowSortKey)
       /\ Truthy(props.linkCol)
       /\ Len(rows) >= AUTO_INDEX_THRESHOLD
    THEN buildIndex(tableId, props, rows, 1, Len(rows), <<>>)
    ELSE Return(<<>>)

\* the cells of one row, each rendered by render
rowCells(ctx, props, row) ==
    FirstThrow([i \in 1..Len(props.columns) |->
        renderCell(ctx, props.columns[i].format,
                   path(split(props.columns[i].key, "/"), row))])

\* the <tr> of a row whose id and cells are computed
rowElement(props, slugId, cells) ==
    IF Threw(slugId) THEN slugId
    ELSE IF Threw(cells) THEN cells
    ELSE Return([id |-> slugId.v,
                 jumpCell |-> props.linkCol = Bool(TRUE),
                 cells |-> [i \in 1..Len(props.columns) |->
                               IF props.linkCol = Num(i - 1)
                               THEN Element("Jump", [id |-> slugId.v,
                                                     children |-> cells.v[i]])
                               ELSE cells.v[i]]])

\* one <tr>; index is the zero-based position of the row
renderRow(ctx, tableId, props, row, index) ==
    rowElement(props, rowId(tableId, props, row, index), rowCells(ctx, props, row))

classesOf(props) ==
    (IF Truthy(props.noClear) THEN <<"no-clear">> ELSE <<>>)
        \o (IF Truthy(props.wrapPre) THEN <<"wrap-pre">> ELSE <<>>)

headOf(ctx, props) ==
    [i \in 1..Len(props.columns) |->
        [colSpan |-> IF props.linkCol = Bool(TRUE) /\ i = 1 THEN 2 ELSE 1,
         children |-> renderCell(ctx, Str("text"), Str(props.columns[i].name)).v]]

bodyOf(ctx, props, rows, id) ==
    FirstThrow([i \in 1..Len(rows) |-> renderRow(ctx, id, props, rows[i], i - 1)])

\* the returned element, the index being built before anything is rendered
tableElement(ctx, props, rowsIndex, body) ==
    IF Threw(rowsIndex) THEN rowsIndex
    ELSE IF Threw(body) THEN body
    ELSE Return([nav |-> rowsIndex.v,
                 rowsIndex |-> rowsIndex.v,
                 className |-> join(classesOf(props), " "),
                 head |-> headOf(ctx, props),
                 body |-> body.v])

\* DataTable after gatherRows
tableOf(ctx, props, gathered) ==
    IF Threw(gathered) THEN gathered
    ELSE tableElement(ctx, props,
             rowsIndexOf(gathered.v.id, props, gathered.v.rows),
             bodyOf(ctx, props, gathered.v.rows, gathered.v.id))

\* useCtx() gives undefined outside a provider
DataTable(ctx, props) ==
    IF ctx = Undef THEN Return(Null) ELSE tableOf(ctx, props, gatherRows(ctx, props))

\* one line of the plaintext: the cells of the row
rowRendered(ctx, props, row) ==
    FirstThrow([i \in 1..Len(props.columns) |->
        renderCellPlaintext(ctx, props.columns[i].format,
            path(split(props.columns[i].key, "/"), row))])

headerRendered(props) == join([i \in 1..Len(props.columns) |-> props.columns[i].name], " ")

\* `${headerRendered}\n${rowsRendered}` from the cells of every row
plaintextOf(props, lines) ==
    IF Threw(lines) THEN lines
    ELSE Return(Str(headerRendered(props) \o "\n"
             \o join([i \in 1..Len(lines.v) |->
                         join([j \in 1..Len(lines.v[i]) |-> JsString(lines.v[i][j])], " ")],
                     "\n")))

\* renderPlaintext after gatherRows
plaintextOfRows(ctx, props, gathered) ==
    IF Threw(gathered) THEN gathered
    ELSE plaintextOf(props,
             FirstThrow([i \in 1..Len(gathered.v.rows) |->
                 rowRendered(ctx, props, gathered.v.rows[i])]))

\* the exported renderPlaintext of the table
renderPlaintext(ctx, props) ==
    IF ctx = Undef THEN Return(Undef)
    ELSE plaintextOfRows(ctx, props, gatherRows(ctx, props))

-----------------------------------------------------------------------------
(* getNavHeadings, getAboutContent and renderPage *)

PREVIEW_LENGTH_CHARS == 100

\* findHeadings(ctx, content): the headings of the rendered tree, in order
findHeadings(ctx, content) == IF content = Undef THEN <<>> ELSE content.headings

\* localizer(thanksLocalizations, lang)("thanksHeadingText")
thanksHeadingText(lang) ==
    IF lang = "es" THEN "Agradecimientos" ELSE "Acknowledgements"

\* pushHeading with >= where the code has >: a heading of the same level as
\* the last one becomes its child
RECURSIVE pushHeading_NotStrict(_, _)
pushHeading_NotStrict(sub, hdg) ==
    IF sub # <<>> /\ hdg.level >= Last(sub).level
    THEN [sub EXCEPT ![Len(sub)].sub = pushHeading_NotStrict(@, hdg)]
    ELSE Append(sub, [level |-> hdg.level, title |-> hdg.title, id |-> hdg.id,
                      sub |-> <<>>])

\* the while loop and the push of one forEach turn: sub is the list reached,
\* last its last node; the walk goes down while hdg is deeper than last
RECURSIVE pushHeading(_, _)
pushHeading(sub, hdg) ==
    IF sub # <<>> /\ hdg.level > Last(sub).level
    THEN [sub EXCEPT ![Len(sub)].sub = pushHeading(@, hdg)]
    ELSE Append(sub, [level |-> hdg.level, title |-> hdg.title, id |-> hdg.id,
                      sub |-> <<>>])

RECURSIVE pushHeadings(_, _)
pushHeadings(res, headings) ==
    IF headings = <<>> THEN res
    ELSE pushHeadings(pushHeading(res, Head(headings)), Tail(headings))

\* Object.entries(front?.thanks ?? {})
thanksOf(thanks) == IF IsNullish(thanks) THEN <<>> ELSE Entries(thanks)

\* foundHeadings after the push of the thanks heading
withThanks(ctx, found, thanks) ==
    IF Len(thanks) > 0
    THEN Append(found, [level |-> 1, title |-> thanksHeadingText(ctx.lang),
                        id |-> slugify(thanksHeadingText(ctx.lang))])
    ELSE found

getNavHeadings(front, ctx, content) ==
    pushHeadings(<<[level |-> 0, title |-> "root", sub |-> <<>>]>>,
                 withThanks(ctx, findHeadings(ctx, content),
                            thanksOf(path(<<"thanks">>, front))))[1].sub

metaboxStyles ==
    [tool |-> [icon |-> Str("tool"), iconTitle |-> Str("Tool"),
               class |-> Str("content-tool")],
     resource |-> [icon |-> Str("file"), iconTitle |-> Str("Resource"),
                   class |-> Undef],
     tag |-> [icon |-> Str("share-2"), iconTitle |-> Str("Tag"),
              class |-> Str("content-tag")],
     guide |-> [icon |-> Str("book-open"), iconTitle |-> Str("Guide"),
                class |-> Str("content-guide")]]

\* no about type, or one without a style: nothing is spread into the props
NoStyle == [icon |-> Undef, iconTitle |-> Undef, class |-> Undef]

\* getTagSections and getWorkflowSections: one section for each, by its subject
getTagSections(ctx, tag) == <<[section |-> "tag", of |-> JsString(Prop(tag, "id"))]>>
getWorkflowSections(ctx, aboutArg) == <<[section |-> "workflow", of |-> aboutArg]>>

\* front?.about?.split(":") ?? []
aboutParts(about) == IF IsNullish(about) THEN <<>> ELSE split(about.s, ":")

styleOf(aboutType) ==
    IF aboutType \in DOMAIN metaboxStyles THEN metaboxStyles[aboutType] ELSE NoStyle

\* ctx?.data?.tags?.[game]?.[tagName] for the tagNameArg of aboutArg.split("/")
tagOf(ctx, tagNameArg) ==
    path(<<"tags",
           IF Len(tagNameArg) > 1 THEN tagNameArg[1] ELSE "h1",
           IF Len(tagNameArg) > 1 THEN tagNameArg[2] ELSE tagNameArg[1]>>,
         ctx.data)

tagNameOf(tagNameArg) == IF Len(tagNameArg) > 1 THEN tagNameArg[2] ELSE tagNameArg[1]

\* the result for a page about a tag that has an id
aboutTag(ctx, front, style, aboutArg, tagName, tag) ==
    [metaboxProps |->
         [title |-> Element("title", [tagName |-> tagName, id |-> Prop(tag, "id")]),
          img |-> path(<<"img">>, front),
          caption |-> path(<<"caption">>, front),
          info |-> path(<<"info">>, front),
          icon |-> style.icon, iconTitle |-> style.iconTitle, class |-> style.class,
          sections |-> getTagSections(ctx, tag) \o getWorkflowSections(ctx, aboutArg)],
     keywords |-> <<Prop(tag, "id")>>]

\* the result for every other page
aboutOther(ctx, front, style, sections) ==
    [metaboxProps |->
         [title |-> path(<<"title">>, front),
          img |-> path(<<"img">>, front),
          caption |-> path(<<"caption">>, front),
          info |-> path(<<"info">>, front),
          icon |-> style.icon, iconTitle |-> style.iconTitle, class |-> style.class,
          sections |-> sections],
     keywords |-> <<>>]

\* the branch on tag?.id
aboutOfTag(ctx, front, aboutArg, tagName, tag) ==
    IF ~IsNullish(tag) /\ Truthy(Prop(tag, "id"))
    THEN aboutTag(ctx, front, styleOf("tag"), aboutArg, tagName, tag)
    ELSE aboutOther(ctx, front, styleOf("tag"), getWorkflowSections(ctx, aboutArg))

\* the body on the destructured aboutType and aboutArg, "" for undefined
aboutOf(ctx, front, aboutType, aboutArg) ==
    IF aboutType = "" \/ aboutArg = ""
    THEN aboutOther(ctx, front, styleOf(aboutType), <<>>)
    ELSE IF aboutType = "tag"
    THEN aboutOfTag(ctx, front, aboutArg, tagNameOf(split(aboutArg, "/")),
                    tagOf(ctx, split(aboutArg, "/")))
    ELSE aboutOther(ctx, front, styleOf(aboutType),
                    IF aboutType \in {"tool", "resource"}
                    THEN getWorkflowSections(ctx, aboutArg) ELSE <<>>)

aboutOfParts(ctx, front, parts) ==
    aboutOf(ctx, front,
            IF Len(parts) >= 1 THEN parts[1] ELSE "",
            IF Len(parts) >= 2 THEN parts[2] ELSE "")

getAboutContent(ctx, front) == aboutOfParts(ctx, front, aboutParts(path(<<"about">>, front)))

\* plaintext.replace(/\n/g, " ")
RECURSIVE newlinesToSpaces(_)
newlinesToSpaces(s) ==
    IF s = "" THEN ""
    ELSE (IF CharAt(s, 1) = "\n" THEN " " ELSE CharAt(s, 1))
         \o newlinesToSpaces(SubSeq(s, 2, Len(s)))

createPlaintextPreview(plaintext) ==
    IF Truthy(plaintext) /\ ~startsWith(plaintext.s, "...")
    THEN Str(trim(newlinesToSpaces(
             IF Len(plaintext.s) > PREVIEW_LENGTH_CHARS
             THEN SubSeq(plaintext.s, 1, PREVIEW_LENGTH_CHARS) \o "..."
             ELSE plaintext.s)))
    ELSE Undef

\* transform(ast, ctx, front): the rendered tree; a link of the page that
\* ctx.resolvePage cannot resolve makes it throw
transform(ast, ctx, front) ==
    FirstThrow([i \in 1..Len(ast.links) |-> resolvePage(ctx, ast.links[i])]
               \o <<Return(ast)>>)

\* renderPlaintext(ctx, content) of the markdown module: the text of the page
renderPagePlaintext(ctx, content) == content.plaintext

\* joinKeywords with the front-matter keywords before the metabox keywords
joinKeywords_FrontFirst(keywords, front) ==
    LET own == path(<<"keywords">>, front)
        all == (IF IsNullish(own) THEN <<>> ELSE own.xs) \o keywords
    IN  join([i \in 1..Len(all) |->
                 IF IsNullish(all[i]) THEN "" ELSE JsString(all[i])], " ")

\* [...keywords, ...(front?.keywords ?? [])].join(" ")
joinKeywords(keywords, front) ==
    LET own == path(<<"keywords">>, front)
        all == keywords \o (IF IsNullish(own) THEN <<>> ELSE own.xs)
    IN  join([i \in 1..Len(all) |->
                 IF IsNullish(all[i]) THEN "" ELSE JsString(all[i])], " ")

\* the props given to HtmlDoc, PageWrapper and Article
htmlDocOf(input, title, navHeadings, bodyPlaintext, about) ==
    [title |-> title,
     noSearch |-> path(<<"noSearch">>, input.front),
     ogDescription |-> createPlaintextPreview(bodyPlaintext),
     path |-> input.pageId,
     navHeadings |-> navHeadings,
     metabox |-> about.metaboxProps,
     debugPlaintext |-> IF Truthy(input.debug) THEN bodyPlaintext ELSE Undef]

searchDocOf(input, title, bodyPlaintext, about) ==
    IF Truthy(path(<<"noSearch">>, input.front)) THEN Null
    ELSE [lang |-> input.lang,
          text |-> IF IsNullish(bodyPlaintext) THEN "" ELSE bodyPlaintext.s,
          path |-> input.pageId,
          title |-> IF IsNullish(title) THEN "" ELSE title.s,
          keywords |-> joinKeywords(about.keywords, input.front)]

\* the output from what the statements before the render computed
outputOf(input, title, navHeadings, bodyPlaintext, about) ==
    Return([htmlDoc |-> htmlDocOf(input, title, navHeadings, bodyPlaintext, about),
            searchDoc |-> searchDocOf(input, title, bodyPlaintext, about)])

\* renderPage after transform returned content
renderContent(input, ctx, content) ==
    outputOf(input,
             path(<<"title">>, input.front),
             getNavHeadings(input.front, ctx, content),
             renderPagePlaintext(ctx, content),
             getAboutContent(ctx, input.front))

\* renderPage after transform, which may have thrown
renderTransformed(input, ctx, transformed) ==
    IF Threw(transformed) THEN transformed
    ELSE renderContent(input, ctx, Last(transformed.v))

renderWith(input, ctx) ==
    renderTransformed(input, ctx, transform(input.ast, ctx, input.front))

\* htmlDoc stands for the props given to HtmlDoc, PageWrapper and Article:
\* the serialization to a string is not modelled
renderPage(input) == renderWith(input, renderContext(input))

-----------------------------------------------------------------------------
(* Inputs *)

SeqsUpTo(S, n) == UNION {[1..m -> S] : m \in 0..n}

\* a DataTableProps with nothing optional set
NoProps ==
    [dataPath |-> Undef, id |-> Undef,
     rowSortKey |-> Undef, rowSortReverse |-> Undef,
     rowFilterKey |-> Undef, rowFilterValue |-> Undef, rowFilterNot |-> Undef,
     linkCol |-> Undef, linkSlugKey |-> Undef,
     noClear |-> Undef, wrapPre |-> Undef,
     columns |-> <<[name |-> "Name", key |-> "name", format |-> Undef]>>]

Absent == [t |-> "absent"]

\* the row object {n, name?, tag?}: n tells the rows of one source apart
Field(key, v) == IF v = Absent THEN <<>> ELSE <<<<key, v>>>>
Row(n, name, tag) == Obj(<<<<"n", Num(n)>>>> \o Field("name", name) \o Field("tag", tag))

-----------------------------------------------------------------------------
(* The sort of gatherRows: rows of one list, with and without a name *)

MaxSortRows == 7

SortNames == {Absent, Str("a"), Str("B"), Str("b")}

SortInputs ==
    {[ctx |-> [data |-> Obj(<<<<"list",
                  Arr([i \in 1..Len(names) |-> Row(i, names[i], Absent)])>>>>)],
      props |-> [NoProps EXCEPT !.dataPath = Str("list"),
                                !.rowSortKey = Str("name"),
                                !.rowSortReverse = reverse]] :
        names \in SeqsUpTo(SortNames, MaxSortRows), reverse \in {Undef, Bool(TRUE)}}

GatherRows ==
    /\ call = "none"
    /\ call' = "gatherRows"
    /\ result' = gatherRows(args.ctx, args.props)
    /\ UNCHANGED args

InitSort == call = "none" /\ result = Pending /\ args \in SortInputs
NextSort == GatherRows
SpecSort == InitSort /\ [][NextSort]_vars

-----------------------------------------------------------------------------
(* Properties of the sort *)

NameOf(row) == path(<<"name">>, row)
HasName(row) == NameOf(row) # Undef
UpperName(row) == toUpperCase(NameOf(row).s)
SameName(r1, r2) == HasName(r1) /\ HasName(r2) /\ UpperName(r1) = UpperName(r2)

\* the position of a row in a sequence of distinct rows
PositionIn(rows, row) == CHOOSE i \in 1..Len(rows) : rows[i] = row

Sorted(c, a) ==
    /\ c = "gatherRows"
    /\ Truthy(a.props.rowSortKey)
    /\ a.props.rowFilterKey = Undef

\* the rows gatherRows is given, in source order
SourceList(a) == path(<<"list">>, a.ctx.data).xs

\* C1: with a sort key and no reverse flag, every row without a value at the
\* sort key stands before every row with one, and the rows with one are in
\* ascending order of their upper-cased key, equal keys in source order.
C1_MissingFirstThenAscending ==
    (Sorted(call, args) /\ ~Truthy(args.props.rowSortReverse) /\ Returned(result)) =>
        LET rows == result.v.rows
            src == SourceList(args)
        IN  \A i, j \in 1..Len(rows) :
                i < j =>
                    /\ ~(HasName(rows[i]) /\ ~HasName(rows[j]))
                    /\ (HasName(rows[i]) /\ HasName(rows[j])) =>
                          /\ ~StrLt(UpperName(rows[j]), UpperName(rows[i]))
                          /\ UpperName(rows[i]) = UpperName(rows[j]) =>
                                PositionIn(src, rows[i]) < PositionIn(src, rows[j])

\* C7: with a sort key and the reverse flag the result is the reversal of
\* what the sort alone returns, and two rows that share a sort-key value
\* stand in the inverse of their source order (so the result is not the
\* stable descending sort as soon as two rows tie).
C7_ReverseInvertsTies ==
    (Sorted(call, args) /\ Truthy(args.props.rowSortReverse) /\ Returned(result)) =>
        LET rows == result.v.rows
            src == SourceList(args)
            alone == gatherRows(args.ctx, [args.props EXCEPT !.rowSortReverse = Undef])
        IN  /\ rows = Reverse(alone.v.rows)
            /\ \A i, j \in 1..Len(src) :
                  (i < j /\ SameName(src[i], src[j])) =>
                      PositionIn(rows, src[j]) < PositionIn(rows, src[i])

\* the same two statements on the lists in which every row has a name
EveryRowNamed(a) == \A i \in 1..Len(SourceList(a)) : HasName(SourceList(a)[i])
C1_WhenEveryRowNamed == EveryRowNamed(args) => C1_MissingFirstThenAscending
C7_WhenEveryRowNamed == EveryRowNamed(args) => C7_ReverseInvertsTies

-----------------------------------------------------------------------------
(* gatherRows over several sources, and its filter *)

MaxRows == 2

\* the values a row may carry at the filter key
FilterTags ==
    {Absent, Str(""), Str("x"), Str("1"), Num(1), Bool(TRUE),
     Arr(<<>>), Arr(<<Str("x")>>), Arr(<<Num(1)>>)}

FilterValues == {Undef, Str(""), Str("x"), Str("1")}

PositionName(i) == IF i % 2 = 1 THEN Str("b") ELSE Str("a")

ListOf(tags) == Arr([i \in 1..Len(tags) |-> Row(i, PositionName(i), tags[i])])

\* a mapping source, a list whose first row is itself an array, and a string
TagsH1 ==
    Obj(<<<<"bitmap", Obj(<<<<"id", Str("bitm")>>>>)>>,
          <<"actor", Obj(<<<<"id", Str("actr")>>>>)>>>>)
Pairs == Arr(<<Arr(<<Str("k1"), Str("v1")>>), Row(3, Str("c"), Absent)>>)

DataOf(list) ==
    Obj(<<<<"list", list>>,
          <<"tags", Obj(<<<<"h1", TagsH1>>>>)>>,
          <<"pairs", Pairs>>,
          <<"title", Str("ab")>>>>)

DataPaths ==
    {Undef, Str("list"), Str("tags/h1"), Str("nowhere"), Str("list/0/name/x"),
     Str("pairs"), Str("title"), Arr(<<>>),
     Arr(<<Str("list"), Str("tags/h1")>>),
     Arr(<<Str("tags/h1"), Str("nowhere"), Str("list")>>),
     Arr(<<Str("pairs"), Str("list")>>)}

SortOptions ==
    {[key |-> Undef, reverse |-> Undef], [key |-> Undef, reverse |-> Bool(TRUE)],
     [key |-> Str("name"), reverse |-> Undef],
     [key |-> Str("name"), reverse |-> Bool(TRUE)]}

\* one list, every sort and filter setting
ListInputs ==
    {[ctx |-> [data |-> DataOf(ListOf(tags))],
      props |-> [NoProps EXCEPT !.dataPath = Str("list"),
                                !.rowSortKey = sort.key,
                                !.rowSortReverse = sort.reverse,
                                !.rowFilterKey = filterKey,
                                !.rowFilterValue = filterValue,
                                !.rowFilterNot = filterNot]] :
        tags \in SeqsUpTo(FilterTags, MaxRows),
        sort \in SortOptions,
        filterKey \in {Str("tag")},
        filterValue \in FilterValues,
        filterNot \in {Undef, Bool(FALSE), Bool(TRUE)}}

\* every source, no sort and no filter, with and without an explicit id
SourceInputs ==
    {[ctx |-> [data |-> DataOf(ListOf(tags))],
      props |-> [NoProps EXCEPT !.dataPath = dataPath, !.id = id]] :
        tags \in SeqsUpTo({Absent, Str("x")}, MaxRows),
        dataPath \in DataPaths,
        id \in {Undef, Str("t")}}

InitRows == call = "none" /\ result = Pending /\ args \in ListInputs \cup SourceInputs
NextRows == GatherRows
SpecRows == InitRows /\ [][NextRows]_vars

Range(s) == {s[i] : i \in 1..Len(s)}

\* C5: with no sort key, no reverse flag and no filter key, gatherRows returns
\* the concatenation, in dataPath order, of what the source paths resolve to:
\* a list as it is, a mapping as its {key, value} rows, a missing path as nothing.
C5_ConcatenationOfSources ==
    (/\ call = "gatherRows"
     /\ ~Truthy(args.props.rowSortKey)
     /\ ~Truthy(args.props.rowSortReverse)
     /\ ~Truthy(args.props.rowFilterKey)) =>
        LET dataPaths == dataPathsOf(args.props)
        IN  /\ Returned(result)
            /\ result.v.rows =
                  Concat([i \in 1..Len(dataPaths) |->
                             sourceRows(args.ctx, dataPaths[i]).xs])

\* the tags that make a row pass the filter, for each filter value
KeptTags(filterValue) ==
    CASE filterValue \in {Undef, Str("")} ->
            {Str("x"), Str("1"), Num(1), Bool(TRUE),
             Arr(<<>>), Arr(<<Str("x")>>), Arr(<<Num(1)>>)}
      [] filterValue = Str("x") -> {Str("x"), Arr(<<Str("x")>>)}
      [] filterValue = Str("1") -> {Str("1"), Num(1), Bool(TRUE)}

TagOf(row) == IF HasKey(row.es, "tag") THEN ValueOf(row.es, "tag") ELSE Absent

Filtered(c, a) == c = "gatherRows" /\ Truthy(a.props.rowFilterKey)

\* C8: with a filter key the result is the unfiltered rows, in their order,
\* without the rows the predicate drops: a row passes when its field is truthy
\* (no filter value), when its array field contains the filter value or its
\* other field loosely equals it (a filter value); rowFilterNot keeps exactly
\* the rows that the same filter without it drops.
C8_FilterKeepsAndPartitions ==
    (Filtered(call, args) /\ Returned(result)) =>
        LET rows == result.v.rows
            unfiltered == gatherRows(args.ctx,
                              [args.props EXCEPT !.rowFilterKey = Undef]).v.rows
            plain == gatherRows(args.ctx,
                         [args.props EXCEPT !.rowFilterNot = Undef]).v.rows
            passes(row) == TagOf(row) \in KeptTags(args.props.rowFilterValue)
        IN  IF Truthy(args.props.rowFilterNot)
            THEN /\ rows = Filter([i \in 1..Len(unfiltered) |-> ~passes(unfiltered[i])],
                                 unfiltered)
                 /\ Range(rows) \cap Range(plain) = {}
                 /\ Range(rows) \cup Range(plain) = Range(unfiltered)
                 /\ Len(rows) + Len(plain) = Len(unfiltered)
            ELSE rows = Filter([i \in 1..Len(unfiltered) |-> passes(unfiltered[i])],
                               unfiltered)

\* a sorted, reversed list filtered by a value with rowFilterNot: one row
\* kept by its array field is dropped, the other row is kept
C8_Witness ==
    /\ Filtered(call, args) /\ Returned(result)
    /\ args.props.rowFilterValue = Str("x")
    /\ args.props.rowFilterNot = Bool(TRUE)
    /\ Truthy(args.props.rowSortKey)
    /\ Len(SourceList(args)) = 2
    /\ Len(result.v.rows) = 1
    /\ \E i \in 1..2 : TagOf(SourceList(args)[i]) = Arr(<<Str("x")>>)

-----------------------------------------------------------------------------
(* Cells rendered in a page render *)

PageIndex ==
    <<[pageId |-> "/h1/tags", lang |-> "en", title |-> "Tags", url |-> "/h1/tags"],
      [pageId |-> "/h1/tags/bitmap", lang |-> "en", title |-> "Bitmap",
       url |-> "/h1/tags/bitmap"],
      [pageId |-> "/h1/tags/actor", lang |-> "es", title |-> "Actor",
       url |-> "/es/h1/tags/actor"]>>

\* the parsed page as the model reads it: the links it resolves, the headings
\* and the plaintext of what it renders
NoAst == [links |-> <<>>, headings |-> <<>>, plaintext |-> Undef]

RenderInputOf(debug, front, globalData, localData) ==
    [baseUrl |-> "https://example.org", noThumbs |-> Undef, debug |-> debug,
     pageId |-> "/h1", lang |-> "en", ast |-> NoAst, front |-> front,
     localData |-> localData, globalData |-> globalData, pageIndex |-> PageIndex]

DebugFlags == {Undef, Bool(FALSE), Bool(TRUE)}

CellFormats ==
    {Undef, Null, Str("text"), Str("code"), Str("anchor"), Str("pageLink"),
     Str("pageLinkRaw"), Str("codeblock"), Str("codeblock-js"), Str("codeblocks"),
     Str(""), Str("Text"), Str("html"), Str("link"), Str("page-link")}

CellContents ==
    {Undef, Null, Str(""), Num(0), Str("h1/tags"), Str("bitmap"), Str("actor"),
     Str("nope"), Str(" padded ")}

CellInputs ==
    {[input |-> RenderInputOf(debug, Obj(<<>>), Obj(<<>>), Undef),
      format |-> format, content |-> content] :
        debug \in DebugFlags, format \in CellFormats, content \in CellContents}

RenderCell ==
    /\ call = "none"
    /\ call' = "renderCell"
    /\ result' = renderCell(renderContext(args.input), args.format, args.content)
    /\ UNCHANGED args

RenderCellPlaintext ==
    /\ call = "none"
    /\ call' = "renderCellPlaintext"
    /\ result' = renderCellPlaintext(renderContext(args.input), args.format, args.content)
    /\ UNCHANGED args

InitCell == call = "none" /\ result = Pending /\ args \in CellInputs
NextCell == RenderCell \/ RenderCellPlaintext
SpecCell == InitCell /\ [][NextCell]_vars

CellRendered == call \in {"renderCell", "renderCellPlaintext"}

\* the format tags the data table documents
RecognizedFormat(format) ==
    \/ IsNullish(format)
    \/ format.s \in {"text", "code", "anchor", "pageLink", "pageLinkRaw", "codeblock"}
    \/ startsWith(format.s, "codeblock-")

\* C2 as stated: a format that is none of the recognized tags raises an error
\* in both renderers, whatever the content of the cell.
C2_UnrecognizedFormatAlwaysThrows ==
    (CellRendered /\ ~RecognizedFormat(args.format)) => Threw(result)

\* what the renderers test: the five tags, or any format starting with codeblock
HandledFormat(format) ==
    \/ IsNullish(format)
    \/ format.s \in {"text", "code", "anchor", "pageLink", "pageLinkRaw"}
    \/ startsWith(format.s, "codeblock")

\* C2 amended: with truthy content, a format that is none of the five tags and
\* does not start with codeblock raises "unsupported column format" in both
\* renderers and every other format renders; with falsy content the cell is
\* the empty string, whatever the format.
C2_UnhandledFormatThrowsOnContent ==
    CellRendered =>
        IF ~Truthy(args.content) THEN result = Return(Str(""))
        ELSE IF HandledFormat(args.format) THEN Returned(result)
        ELSE result = Throw(UnsupportedFormat(args.format.s))

C2_Witness ==
    /\ call = "renderCell"
    /\ args.format = Str("html")
    /\ args.content = Str("nope")
    /\ Threw(result)

Unresolvable(a) ==
    /\ IsStr(a.content)
    /\ resolvePageGlobal(a.input.pageIndex, a.input.lang, a.input.pageId, a.content.s) = Undef

LinkFormat(format) == format \in {Str("anchor"), Str("pageLink")}

\* C3 as stated: in a page render a pageLink or anchor cell whose content
\* resolves to no page renders as the raw content, in HTML and in plaintext,
\* whatever the debug flag of the render input.
C3_UnresolvedLinkIsRawContent ==
    (CellRendered /\ LinkFormat(args.format) /\ Unresolvable(args)) =>
        result = Return(args.content)

\* C3 amended: the cell renders as the raw content when the debug flag is not
\* set; when it is set the resolver answers with its placeholder and the cell
\* renders the placeholder's title, in HTML as a link to "#".
C3_UnresolvedLinkByDebugFlag ==
    (CellRendered /\ LinkFormat(args.format) /\ Unresolvable(args)) =>
        IF ~Truthy(args.content) \/ ~Truthy(args.input.debug)
        THEN result = Return(args.content)
        ELSE IF call = "renderCell"
        THEN result = Return(Element("a", [href |-> "#", children |-> Str("[Unresolved]")]))
        ELSE result = Return(Str("[Unresolved]"))

C3_Witness ==
    /\ call = "renderCell"
    /\ args.format = Str("pageLink")
    /\ args.content = Str("nope")
    /\ args.input.debug = Bool(FALSE)
    /\ result = Return(Str("nope"))

-----------------------------------------------------------------------------
(* Tables around the index threshold *)

MaxExtraRows == 1

SmallTable == 2

TableSizes ==
    {0, SmallTable}
        \cup (AUTO_INDEX_THRESHOLD - 1)..(AUTO_INDEX_THRESHOLD + MaxExtraRows)

\* one row of the list may lack its name, or carry the empty string
Holes ==
    {[kind |-> "none", first |-> FALSE]}
        \cup [kind : {"absent", "empty"}, first : BOOLEAN]

TableList(size, hole) ==
    Arr([i \in 1..size |->
            Row(i,
                IF hole.kind # "none" /\ i = (IF hole.first THEN 1 ELSE size)
                THEN (IF hole.kind = "absent" THEN Absent ELSE Str(""))
                ELSE PositionName(i),
                Absent)])

TableColumns ==
    <<[name |-> "Name", key |-> "name", format |-> Undef],
      [name |-> "N", key |-> "n", format |-> Str("code")]>>

LinkCols == {Undef, Bool(TRUE), Bool(FALSE), Num(0), Num(1)}

TableInputs ==
    {[ctx |-> renderContext(RenderInputOf(Undef, Obj(<<>>),
                  Obj(<<<<"list", TableList(size, hole)>>>>), Undef)),
      props |-> [NoProps EXCEPT !.dataPath = dataPath,
                                !.columns = TableColumns,
                                !.rowSortKey = rowSortKey,
                                !.linkCol = linkCol,
                                !.linkSlugKey = linkSlugKey]] :
        size \in TableSizes, hole \in Holes,
        dataPath \in {Str("list"), Str("nowhere")},
        rowSortKey \in {Undef, Str("name")},
        linkCol \in LinkCols,
        linkSlugKey \in {Undef, Str("name")}}
    \cup
    {[ctx |-> Undef,
      props |-> [NoProps EXCEPT !.dataPath = Str("list")]]}

DataTableRender ==
    /\ call = "none"
    /\ call' = "DataTable"
    /\ result' = DataTable(args.ctx, args.props)
    /\ UNCHANGED args

RenderPlaintext ==
    /\ call = "none"
    /\ call' = "renderPlaintext"
    /\ result' = renderPlaintext(args.ctx, args.props)
    /\ UNCHANGED args

InitTable == call = "none" /\ result = Pending /\ args \in TableInputs
NextTable == DataTableRender \/ RenderPlaintext
SpecTable == InitTable /\ [][NextTable]_vars

\* every row of the list has a non-empty name
EveryNameTruthy(a) ==
    \A i \in 1..Len(SourceList(a)) : Truthy(NameOf(SourceList(a)[i]))

\* linkCol is true or the index of a column
LinkColumnSet(props) == props.linkCol = Bool(TRUE) \/ HasColumn(props, props.linkCol)

\* the configuration is one the props allow: linkCol absent, true or an index
ValidLinkCol(props) == props.linkCol = Undef \/ LinkColumnSet(props)

\* C4: rendering a DataTable, as HTML or as plaintext, raises no error for
\* missing data: a data path that resolves to nothing gives no rows, a row
\* without a value at a column, sort or slug key is rendered all the same,
\* also in a sorted, linked table of at least the threshold.
C4_MissingDataNeverThrows ==
    (/\ call \in {"DataTable", "renderPlaintext"}
     /\ ValidLinkCol(args.props)) =>
        /\ ~Threw(result)
        /\ (args.props.dataPath = Str("nowhere") /\ args.ctx # Undef
                /\ call = "DataTable") => result.v.body = <<>>

\* C10: on rows that all carry a non-empty name, the jump index has an entry
\* exactly when a sort key is set, a link column is set (true, or the index
\* of a column, 0 included) and there are at least AUTO_INDEX_THRESHOLD
\* rows; otherwise the index is empty and no nav is rendered.
C10_IndexExactlyWhenSortedLinkedAndLarge ==
    (/\ call = "DataTable"
     /\ args.ctx # Undef
     /\ EveryNameTruthy(args)
     /\ ValidLinkCol(args.props)) =>
        /\ Returned(result)
        /\ (Len(result.v.rowsIndex) >= 1) <=>
              /\ Truthy(args.props.rowSortKey)
              /\ LinkColumnSet(args.props)
              /\ Len(result.v.body) >= AUTO_INDEX_THRESHOLD
        /\ result.v.nav = result.v.rowsIndex

\* the same with linkCol 0 left out
C10_WhenLinkColNotZero ==
    args.props.linkCol # Num(0) => C10_IndexExactlyWhenSortedLinkedAndLarge

\* C4 on the lists in which every row has a non-empty name
C4_WhenEveryNameTruthy ==
    (args.ctx # Undef /\ EveryNameTruthy(args)) => C4_MissingDataNeverThrows

-----------------------------------------------------------------------------
(* The outline of the headings *)

MaxHeadings == 4
MaxLevel == 3

HeadingTitles == <<"A", "B", "C", "D", "E", "F", "G", "H">>

HeadingsOf(levels) ==
    [i \in 1..Len(levels) |->
        [level |-> levels[i], title |-> HeadingTitles[i],
         id |-> slugify(HeadingTitles[i])]]

ThanksChoices == {Absent, Obj(<<>>), Obj(<<<<"Alice", Str("testing")>>>>)}

NavInputs ==
    {[front |-> front,
      ctx |-> renderContext(RenderInputOf(Undef, front, Obj(<<>>), Undef)),
      content |-> [NoAst EXCEPT !.headings = HeadingsOf(levels)]] :
        levels \in SeqsUpTo(1..MaxLevel, MaxHeadings),
        front \in {Undef} \cup {Obj(Field("thanks", thanks)) : thanks \in ThanksChoices}}

GetNavHeadings ==
    /\ call = "none"
    /\ call' = "getNavHeadings"
    /\ result' = Return(getNavHeadings(args.front, args.ctx, args.content))
    /\ UNCHANGED args

InitNav == call = "none" /\ result = Pending /\ args \in NavInputs
NextNav == GetNavHeadings
SpecNav == InitNav /\ [][NextNav]_vars

\* the flat headings getNavHeadings arranges: those found, then the thanks
FlatHeadings(a) ==
    LET thanks == path(<<"thanks">>, a.front)
    IN  a.content.headings
        \o (IF ~IsNullish(thanks) /\ thanks.es # <<>>
            THEN <<[level |-> 1, title |-> thanksHeadingText(a.ctx.lang),
                    id |-> slugify(thanksHeadingText(a.ctx.lang))]>>
            ELSE <<>>)

\* the nearest earlier heading with a strictly smaller level, 0 when none
ParentOf(flat, i) ==
    LET earlier == {j \in 1..(i - 1) : flat[j].level < flat[i].level}
    IN  IF earlier = {} THEN 0 ELSE CHOOSE j \in earlier : \A k \in earlier : k <= j

ChildrenOf(flat, p) ==
    Filter([i \in 1..Len(flat) |-> ParentOf(flat, i) = p], [i \in 1..Len(flat) |-> i])

\* the outline in which every heading is a child of its ParentOf, in input order
RECURSIVE OutlineUnder(_, _)
OutlineUnder(flat, p) ==
    LET children == ChildrenOf(flat, p)
    IN  [c \in 1..Len(children) |->
            [level |-> flat[children[c]].level, title |-> flat[children[c]].title,
             id |-> flat[children[c]].id, sub |-> OutlineUnder(flat, children[c])]]

\* the pre-order walk of an outline, as headings without their children
RECURSIVE PreOrder(_)
PreOrder(outline) ==
    Concat([i \in 1..Len(outline) |->
               <<[level |-> outline[i].level, title |-> outline[i].title,
                  id |-> outline[i].id]>> \o PreOrder(outline[i].sub)])

RECURSIVE ChildrenDeeper(_)
ChildrenDeeper(outline) ==
    \A i \in 1..Len(outline) :
        /\ \A c \in 1..Len(outline[i].sub) : outline[i].sub[c].level > outline[i].level
        /\ ChildrenDeeper(outline[i].sub)

\* C6: every heading is the last child of the nearest earlier heading of a
\* strictly smaller level, top-level when there is none; so the pre-order walk
\* of the outline is the input and every child is deeper than its parent.
C6_OutlineByNearestShallowerHeading ==
    call = "getNavHeadings" =>
        LET flat == FlatHeadings(args)
        IN  /\ result.v = OutlineUnder(flat, 0)
            /\ PreOrder(result.v) = flat
            /\ ChildrenDeeper(result.v)

\* levels 1, 2, 1 titled A, B, C give [A[B], C]
C6_Witness ==
    /\ call = "getNavHeadings"
    /\ args.front = Undef
    /\ [i \in 1..Len(args.content.headings) |-> args.content.headings[i].level]
           = <<1, 2, 1>>
    /\ Len(result.v) = 2
    /\ result.v[1].title = "A"
    /\ Len(result.v[1].sub) = 1 /\ result.v[1].sub[1].title = "B"
    /\ result.v[1].sub[1].sub = <<>>
    /\ result.v[2].title = "C" /\ result.v[2].sub = <<>>

-----------------------------------------------------------------------------
(* The search document of renderPage *)

MaxKeywords == 2

PageTags ==
    Obj(<<<<"tags",
            Obj(<<<<"h1", Obj(<<<<"bitmap", Obj(<<<<"id", Str("bitm")>>>>)>>,
                                <<"scenario", Obj(<<>>)>>>>)>>,
                  <<"h2", Obj(<<<<"biped", Obj(<<<<"id", Str("bipd")>>>>)>>>>)>>>>)>>>>)

AboutChoices ==
    {Absent, Str("tag:bitmap"), Str("tag:h2/biped"), Str("tag:scenario"),
     Str("tag:h2/bitmap"), Str("tool:guerilla"), Str("guide"), Str("tag")}

KeywordChoices ==
    {Absent} \cup {Arr([i \in 1..Len(ks) |-> Str(ks[i])]) :
                      ks \in SeqsUpTo({"x", "y"}, MaxKeywords)}

FrontChoices ==
    {Undef}
    \cup {Obj(Field("noSearch", noSearch) \o Field("title", title)
              \o Field("keywords", keywords) \o Field("about", about)) :
            noSearch \in {Absent, Bool(FALSE), Bool(TRUE)},
            title \in {Absent, Str("Bitmap")},
            keywords \in KeywordChoices,
            about \in AboutChoices}

PageAsts ==
    {[links |-> links, headings |-> HeadingsOf(<<1, 2>>), plaintext |-> plaintext] :
        links \in {<<>>, <<"bitmap">>, <<"actor">>},
        plaintext \in {Undef, Str(""), Str("Bitmap\ntags")}}

PageInputs ==
    {[RenderInputOf(debug, front, PageTags, Undef) EXCEPT !.ast = ast, !.lang = lang] :
        debug \in {Undef, Bool(TRUE)}, front \in FrontChoices, ast \in PageAsts,
        lang \in {"en", "es"}}

RenderPage ==
    /\ call = "none"
    /\ call' = "renderPage"
    /\ result' = renderPage(args)
    /\ UNCHANGED args

InitPage == call = "none" /\ result = Pending /\ args \in PageInputs
NextPage == RenderPage
SpecPage == InitPage /\ [][NextPage]_vars

\* the id of the tag the front matter is about, when the data tree has one
MetaboxKeywords(front) ==
    LET about == path(<<"about">>, front)
    IN  IF about = Str("tag:bitmap") THEN <<"bitm">>
        ELSE IF about = Str("tag:h2/biped") THEN <<"bipd">>
        ELSE <<>>

FrontKeywords(front) ==
    LET own == path(<<"keywords">>, front)
    IN  IF IsNullish(own) THEN <<>> ELSE [i \in 1..Len(own.xs) |-> own.xs[i].s]

RECURSIVE SpaceSeparated(_)
SpaceSeparated(words) ==
    IF words = <<>> THEN ""
    ELSE IF Len(words) = 1 THEN words[1]
    ELSE words[1] \o " " \o SpaceSeparated(Tail(words))

\* C9: the search document is null exactly when the front matter's noSearch
\* is truthy; otherwise it carries the input language and page id, the title
\* and the plaintext (empty when absent), and the metabox keywords followed
\* by the front-matter keywords, joined by single spaces.
C9_SearchDocOfPage ==
    (call = "renderPage" /\ Returned(result)) =>
        LET front == args.front
            doc == result.v.searchDoc
            title == path(<<"title">>, front)
        IN  /\ doc = Null <=> Truthy(path(<<"noSearch">>, front))
            /\ doc # Null =>
                /\ doc.lang = args.lang
                /\ doc.path = args.pageId
                /\ doc.title = (IF title = Undef THEN "" ELSE title.s)
                /\ doc.text = (IF args.ast.plaintext = Undef THEN ""
                               ELSE args.ast.plaintext.s)
                /\ doc.keywords
                       = SpaceSeparated(MetaboxKeywords(front) \o FrontKeywords(front))

\* a page about a tag, with two keywords of its own
C9_Witness ==
    /\ call = "renderPage"
    /\ Returned(result)
    /\ path(<<"about">>, args.front) = Str("tag:bitmap")
    /\ FrontKeywords(args.front) = <<"x", "y">>
    /\ result.v.searchDoc # Null
    /\ result.v.searchDoc.keywords = "bitm x y"

=============================================================================
